---- MODULE Spec2Model ----
(***************************************************************************)
(* Model of the dotnet project-reference bundler of                        *)
(* azure/cli/command_modules/appservice/_create_util.py:                   *)
(* zip_contents_from_dir (netcore branch) and the region                   *)
(* "Add the project references for dotnet webapp in zip archive".          *)
(*                                                                         *)
(* Strings are modelled as sequences of tokens: a path is the sequence of  *)
(* its segments (an absolute path starts with the token "/"), an arcname   *)
(* is the sequence of its segments, and the text of a manifest is the      *)
(* sequence of markup tokens and path segments it is made of.              *)
(***************************************************************************)
EXTENDS Integers, Sequences, FiniteSets, TLC

\* ------------------------------------------------------------------ bounds
\* Largest number of ProjectReference declarations in the root manifest.
MaxRefs == 2

\* ------------------------------------------------------- strings and paths
Last(s) == s[Len(s)]

Front(s) == SubSeq(s, 1, Len(s) - 1)

Range(s) == {s[i] : i \in 1..Len(s)}

\* str.endswith('.csproj') on a path or arcname: decided by its last segment.
CsprojNames == {"App.csproj", "App2.csproj", "Nested.csproj", "Lib.csproj", "Util.csproj"}

EndsWithCsproj(p) == Len(p) > 0 /\ Last(p) \in CsprojNames

\* os.path.join(base, p): an absolute second argument discards the first.
PathJoin(base, p) == IF Len(p) > 0 /\ p[1] = "/" THEN p ELSE base \o p

\* os.path.abspath on an absolute path: "." is dropped, ".." pops a segment.
RECURSIVE NormInto(_, _)
NormInto(acc, p) ==
    IF p = <<>> THEN acc
    ELSE IF p[1] = "." THEN NormInto(acc, Tail(p))
    ELSE IF p[1] = ".." THEN NormInto(IF Len(acc) > 1 THEN Front(acc) ELSE acc, Tail(p))
    ELSE NormInto(Append(acc, p[1]), Tail(p))

AbsPath(p) == NormInto(<<"/">>, Tail(p))

\* os.path.dirname / os.path.basename
DirName(p) == Front(p)

BaseName(p) == Last(p)

\* p[len(d) + 1:] for a path p under the directory d
RelTo(d, p) == SubSeq(p, Len(d) + 1, Len(p))

IsUnder(d, p) == Len(p) > Len(d) /\ SubSeq(p, 1, Len(d)) = d

\* A set of paths as a list, in the order a directory walk happens to give.
RECURSIVE SetToSeq(_)
SetToSeq(S) ==
    IF S = {} THEN <<>>
    ELSE LET x == CHOOSE y \in S : TRUE IN <<x>> \o SetToSeq(S \ {x})

\* str.replace(k, v): leftmost, non-overlapping occurrences.
RECURSIVE Replace(_, _, _)
Replace(s, k, v) ==
    IF Len(s) < Len(k) \/ k = <<>> THEN s
    ELSE IF SubSeq(s, 1, Len(k)) = k
         THEN v \o Replace(SubSeq(s, Len(k) + 1, Len(s)), k, v)
         ELSE <<s[1]>> \o Replace(Tail(s), k, v)

\* --------------------------------------------------------- the file system
DOTNET_REFERENCES_DIR_IN_ZIP == "references"

\* dirPath as zip_contents_from_dir passes it on (abs_src) and the archive paths
dirPath == <<"/", "w", "App">>

zip_file_path == <<"app.zip">>

NoFile == [exists |-> FALSE, entries |-> <<>>]

Archive(es) == [exists |-> TRUE, entries |-> es]

Entry(arcname, data) == [name |-> arcname, data |-> data]

\* ProjectReference declarations as they can appear in a manifest
Decl(include) == [attr |-> TRUE, Include |-> include]

NoAttr == [attr |-> FALSE, Include |-> <<>>]

Manifest(ds) == [wellformed |-> TRUE, decls |-> ds]

Malformed == [wellformed |-> FALSE, decls |-> <<>>]

IL == <<"..", "Lib", "Lib.csproj">>

ILdot == <<"..", "Lib", ".", "Lib.csproj">>

IU == <<"..", "Util", "Util.csproj">>

IA == <<"..", "App", "App.csproj">>

IXL == <<"/", "x", "Lib", "Lib.csproj">>

INon == <<"..", "Lib", "Lib.vbproj">>

AppCsproj == dirPath \o <<"App.csproj">>

App2Csproj == dirPath \o <<"App2.csproj">>

NestedCsproj == dirPath \o <<"sub", "Nested.csproj">>

LibCsproj == <<"/", "w", "Lib", "Lib.csproj">>

UtilCsproj == <<"/", "w", "Util", "Util.csproj">>

XLibCsproj == <<"/", "x", "Lib", "Lib.csproj">>

XUtilCsproj == <<"/", "x", "Util", "Util.csproj">>

\* Files that are on disk in every run: the web app's own tree (with a nested
\* project and a build-output folder), two sibling projects, and a second
\* solution under /x with projects of the same names.
FixedFiles ==
    { dirPath \o <<"Program.cs">>, dirPath \o <<"obj", "App.dll">>, NestedCsproj,
      LibCsproj, <<"/", "w", "Lib", "Lib.cs">>, <<"/", "w", "Lib", "bin", "Lib.dll">>,
      UtilCsproj, <<"/", "w", "Util", "Util.cs">>,
      XLibCsproj, <<"/", "x", "Lib", "Lib.cs">>,
      XUtilCsproj }

WorkingDirs == {dirPath, <<"/", "x", "App">>}

RECURSIVE SeqsUpTo(_, _)
SeqsUpTo(S, n) ==
    IF n = 0 THEN {<<>>}
    ELSE LET shorter == SeqsUpTo(S, n - 1)
         IN shorter \cup {Append(s, x) : s \in {t \in shorter : Len(t) = n - 1}, x \in S}

RootDecls == {Decl(IL), Decl(ILdot), Decl(IU), Decl(IXL), NoAttr}

RootContents == {Manifest(ds) : ds \in SeqsUpTo(RootDecls, MaxRefs)} \cup {Malformed}

LibContents ==
    { Manifest(<<>>), Manifest(<<Decl(IU), Decl(INon)>>), Manifest(<<Decl(IA)>>),
      Manifest(<<Decl(IL), Decl(IU), Decl(IU)>>), Malformed }

UtilContents == {Manifest(<<>>), Manifest(<<Decl(IL)>>), Manifest(<<Decl(IA)>>), Manifest(<<NoAttr>>)}

VARIABLES
    files,                  \* the files on disk outside the archives
    manifest,               \* manifest file -> its content
    cwd,                    \* the process working directory
    disk,                   \* archive path -> archive file
    pc,                     \* position in zip_contents_from_dir / the bundler
    error,                  \* the exception in flight or raised ("none" if none)
    warned,                 \* logger.warning was called
    csproj_path,
    abs_references,
    replace_dict,
    csproj_content,         \* the root manifest's text as read
    new_csproj_content,
    result_references,
    newReference,
    transitives_references,
    idx,                    \* position of the running for loop
    original,               \* the archive as zip_contents_from_dir built it
    failedAt,               \* the step the exception came from
    parseLog,               \* references parsed by the closure loop, in order
    stagedLog               \* manifests whose tree was staged, in order

vars == <<files, manifest, cwd, disk, pc, error, warned, csproj_path, abs_references,
          replace_dict, csproj_content, new_csproj_content, result_references, newReference,
          transitives_references, idx, original, failedAt, parseLog, stagedLog>>

\* Mutation of tmp_zip_file_path: the bundle is built in place, in the original.
tmp_zip_file_path_in_place == zip_file_path

\* tmp_zip_file_path = "{}.tmp".format(zip_file_path)
tmp_zip_file_path == zip_file_path \o <<".tmp">>

\* os.walk(dir) with subdirs 'obj' and 'bin' pruned: the files it visits.
Walk(dir) ==
    { f \in files :
        /\ IsUnder(dir, f)
        /\ \A i \in (Len(dir) + 1)..(Len(f) - 1) : f[i] \notin {"obj", "bin"} }

\* os.listdir(dirPath) filtered to names ending in .csproj
RootCsprojs(dir) == {f \in files : DirName(f) = dir /\ EndsWithCsproj(f)}

\* The text of a manifest file as open(...).read() returns it.
RECURSIVE DeclsText(_)
DeclsText(ds) ==
    IF ds = <<>> THEN <<>>
    ELSE <<"<ProjectReference">> \o ds[1].Include \o <<"/>">> \o DeclsText(Tail(ds))

ManifestText(m) ==
    IF m.wellformed THEN <<"<Project>">> \o DeclsText(m.decls) \o <<"</Project>">>
    ELSE <<"<Project>", "<">>

\* _get_dotnet_project_references(csproj_path): the Include values ending in
\* .csproj, or the exception the parse raises.
IncludesOf(ds) ==
    LET kept == SelectSeq(ds, LAMBDA d : EndsWithCsproj(d.Include))
    IN [i \in 1..Len(kept) |-> kept[i].Include]

_get_dotnet_project_references(path) ==
    IF path \notin files THEN [err |-> "OSError", refs |-> <<>>]
    ELSE IF ~manifest[path].wellformed THEN [err |-> "ParseError", refs |-> <<>>]
    ELSE IF \E i \in 1..Len(manifest[path].decls) : ~manifest[path].decls[i].attr
         THEN [err |-> "KeyError", refs |-> <<>>]
    ELSE [err |-> "none", refs |-> IncludesOf(manifest[path].decls)]

\* any(xs) on a collection of strings: some element is a non-empty string.
AnyOf(S) == \E x \in S : x # <<>>

\* The exceptions zip_contents_from_dir catches around the bundler.
CaughtByBundlingNet == {"OSError", "ValueError", "TypeError", "ParseError", "BadZipFile", "LargeZipFile"}

Init ==
    /\ \E roots \in {{}, {AppCsproj}, {AppCsproj, App2Csproj}} :
        /\ files = FixedFiles \cup roots
        /\ \E r \in RootContents, l \in LibContents, u \in UtilContents :
            /\ roots # {AppCsproj} => (r = Manifest(<<>>) /\ l = Manifest(<<>>) /\ u = Manifest(<<>>))
            /\ manifest = [f \in {g \in FixedFiles \cup roots : EndsWithCsproj(g)} |->
                            CASE f = AppCsproj -> r
                              [] f = LibCsproj -> l
                              [] f = UtilCsproj -> u
                              [] f = XLibCsproj -> Manifest(<<Decl(IU)>>)
                              [] OTHER -> Manifest(<<>>)]
    /\ cwd \in WorkingDirs
    /\ disk = [p \in {zip_file_path, tmp_zip_file_path} |-> NoFile]
    /\ pc = "zip"
    /\ error = "none"
    /\ warned = FALSE
    /\ csproj_path = <<>>
    /\ abs_references = <<>>
    /\ replace_dict = <<>>
    /\ csproj_content = <<>>
    /\ new_csproj_content = <<>>
    /\ result_references = <<>>
    /\ newReference = {}
    /\ transitives_references = <<>>
    /\ idx = 0
    /\ original = NoFile
    /\ failedAt = "none"
    /\ parseLog = <<>>
    /\ stagedLog = <<>>

\* An exception leaves the bundler (or the zipping) from the step at pc.
Raise(kind) ==
    /\ error' = kind
    /\ failedAt' = pc
    /\ pc' = "except"

\* zip_contents_from_dir, netcore: the directory is zipped, obj and bin pruned.
ZipEntries(dir) ==
    LET fs == SetToSeq(Walk(dir))
    IN [i \in 1..Len(fs) |-> Entry(RelTo(dir, fs[i]), <<"file", fs[i]>>)]

ZipDir ==
    /\ pc = "zip"
    /\ disk' = [disk EXCEPT ![zip_file_path] = Archive(ZipEntries(dirPath))]
    /\ original' = Archive(ZipEntries(dirPath))
    /\ pc' = "main_csproj"
    /\ UNCHANGED <<files, manifest, cwd, error, warned, csproj_path, abs_references,
                   replace_dict, csproj_content, new_csproj_content, result_references, newReference,
                   transitives_references, idx, failedAt, parseLog, stagedLog>>

\* An OSError while zipping is turned into a CLIError, which is raised.
ZipDirFail ==
    /\ pc = "zip"
    /\ error' = "CLIError"
    /\ failedAt' = "zip"
    /\ pc' = "raised"
    /\ UNCHANGED <<files, manifest, cwd, disk, warned, csproj_path, abs_references,
                   replace_dict, csproj_content, new_csproj_content, result_references, newReference,
                   transitives_references, idx, original, parseLog, stagedLog>>

\* Mutation of OnlyOne: several manifests are accepted.
OnlyOne_or_more(ll) == Cardinality(ll) >= 1

\* if len(ll) == 1
OnlyOne(ll) == Cardinality(ll) = 1

\* _get_dotnet_main_project_csproj
GetMainCsproj ==
    /\ pc = "main_csproj"
    /\ LET ll == RootCsprojs(dirPath)
       IN IF OnlyOne(ll)
          THEN /\ csproj_path' = CHOOSE f \in ll : TRUE
               /\ pc' = "parse_root"
               /\ UNCHANGED <<error, failedAt>>
          ELSE /\ Raise("Exception")
               /\ UNCHANGED csproj_path
    /\ UNCHANGED <<files, manifest, cwd, disk, warned, abs_references,
                   replace_dict, csproj_content, new_csproj_content, result_references, newReference,
                   transitives_references, idx, original, parseLog, stagedLog>>

\* abs_references = _get_dotnet_project_references(csproj_path); if any(...)
ParseRoot ==
    /\ pc = "parse_root"
    /\ LET r == _get_dotnet_project_references(csproj_path)
       IN IF r.err # "none"
          THEN /\ Raise(r.err)
               /\ UNCHANGED abs_references
          ELSE /\ abs_references' = r.refs
               /\ pc' = IF AnyOf(Range(r.refs)) THEN "init_tmp" ELSE "return"
               /\ UNCHANGED <<error, failedAt>>
    /\ UNCHANGED <<files, manifest, cwd, disk, warned, csproj_path,
                   replace_dict, csproj_content, new_csproj_content, result_references, newReference,
                   transitives_references, idx, original, parseLog, stagedLog>>

\* Step 1: init .zip.tmp
InitTmp ==
    /\ pc = "init_tmp"
    /\ disk' = [disk EXCEPT ![tmp_zip_file_path] =
                  Archive(<<Entry(<<DOTNET_REFERENCES_DIR_IN_ZIP, "/">>, <<"dir", <<>>>>)>>)]
    /\ pc' = "stage_direct"
    /\ idx' = 1
    /\ replace_dict' = <<>>
    /\ UNCHANGED <<files, manifest, cwd, error, warned, csproj_path, abs_references,
                   csproj_content, new_csproj_content, result_references, newReference,
                   transitives_references, original, failedAt, parseLog, stagedLog>>

\* _append_dotnet_references, one turn of "for include in abs_references":
\* the names it computes and the entries it writes.
AbsInclude(include) == AbsPath(PathJoin(dirPath, include))

\* Mutation of CsprojInclude: the containing directory's name is left out.
CsprojInclude_flat(include) ==
    LET abs_include == AbsInclude(include)
    IN <<DOTNET_REFERENCES_DIR_IN_ZIP>> \o RelTo(DirName(abs_include), abs_include)

CsprojInclude(include) ==
    LET abs_include == AbsInclude(include)
        dirname_include == DirName(abs_include)
    IN <<DOTNET_REFERENCES_DIR_IN_ZIP, BaseName(dirname_include)>> \o RelTo(dirname_include, abs_include)

TreeEntries(include) ==
    LET dirname_include == DirName(AbsInclude(include))
        fs == SetToSeq(Walk(dirname_include))
    IN [i \in 1..Len(fs) |->
          Entry(<<DOTNET_REFERENCES_DIR_IN_ZIP, BaseName(dirname_include)>> \o RelTo(dirname_include, fs[i]),
                <<"file", fs[i]>>)]

BakEntry(include) == Entry(CsprojInclude(include) \o <<".bak">>, <<"file", AbsInclude(include)>>)

\* replace_dict[k] = v on an insertion-ordered dict, kept as a list of pairs
DictSet(d, k, v) ==
    IF \E i \in 1..Len(d) : d[i][1] = k
    THEN [i \in 1..Len(d) |-> IF d[i][1] = k THEN <<k, v>> ELSE d[i]]
    ELSE Append(d, <<k, v>>)

\* replace_dict as _append_dotnet_references builds it for a list of references
RECURSIVE ReplaceDictOf(_, _)
ReplaceDictOf(d, refs) ==
    IF refs = <<>> THEN d
    ELSE ReplaceDictOf(DictSet(d, refs[1], CsprojInclude(refs[1])), Tail(refs))

\* One reference of the list `refs` is staged into the archive at tmp_zip_file_path.
\* The backup write raises when the referenced manifest does not exist.
AppendOne(refs, donePc, record) ==
    LET include == refs[idx]
        found == AbsInclude(include) \in files
        written == TreeEntries(include) \o (IF found THEN <<BakEntry(include)>> ELSE <<>>)
    IN /\ disk' = [disk EXCEPT ![tmp_zip_file_path] = Archive(@.entries \o written)]
       /\ stagedLog' = Append(stagedLog, AbsInclude(include))
       /\ IF found
          THEN /\ replace_dict' = IF record THEN DictSet(replace_dict, include, CsprojInclude(include))
                                  ELSE replace_dict
               /\ idx' = idx + 1
               /\ pc' = IF idx = Len(refs) THEN donePc ELSE pc
               /\ UNCHANGED <<error, failedAt>>
          ELSE /\ Raise("OSError")
               /\ UNCHANGED <<replace_dict, idx>>

\* Step 2: append webapp project references to .zip.tmp
StageDirect ==
    /\ pc = "stage_direct"
    /\ AppendOne(abs_references, "rewrite", TRUE)
    /\ UNCHANGED <<files, manifest, cwd, warned, csproj_path, abs_references,
                   csproj_content, new_csproj_content, result_references, newReference,
                   transitives_references, original, parseLog>>

\* for k, v in replace_dict.items(): new_csproj_content = ....replace(k, v)
RECURSIVE ReplaceAll(_, _)
ReplaceAll(text, d) ==
    IF d = <<>> THEN text
    ELSE ReplaceAll(Replace(text, d[1][1], d[1][2]), Tail(d))

Rewrite ==
    /\ pc = "rewrite"
    /\ csproj_content' = ManifestText(manifest[csproj_path])
    /\ new_csproj_content' = ReplaceAll(ManifestText(manifest[csproj_path]), replace_dict)
    /\ pc' = "closure_start"
    /\ UNCHANGED <<files, manifest, cwd, disk, error, warned, csproj_path, abs_references,
                   replace_dict, result_references, newReference,
                   transitives_references, idx, original, failedAt, parseLog, stagedLog>>

\* Step 3, _get_dotnet_transitive_missing_references(abs_references): its locals
ClosureStart ==
    /\ pc = "closure_start"
    /\ result_references' = abs_references
    /\ newReference' = Range(abs_references)
    /\ pc' = "closure"
    /\ UNCHANGED <<files, manifest, cwd, disk, error, warned, csproj_path, abs_references,
                   replace_dict, csproj_content, new_csproj_content,
                   transitives_references, idx, original, failedAt, parseLog, stagedLog>>

\* Mutation of NotYetListed: only the pending references are consulted.
NotYetListed_pending_only(suggested_reference, result, pending) == suggested_reference \notin pending

\* if suggested_reference not in result_references
NotYetListed(suggested_reference, result, pending) == suggested_reference \notin Range(result)

\* for suggested_reference in abs_references: append and add the unlisted ones
RECURSIVE AddSuggested(_, _, _)
AddSuggested(result, pending, suggested) ==
    IF suggested = <<>> THEN <<result, pending>>
    ELSE IF NotYetListed(suggested[1], result, pending)
         THEN AddSuggested(Append(result, suggested[1]), pending \cup {suggested[1]}, Tail(suggested))
         ELSE AddSuggested(result, pending, Tail(suggested))

\* The file the closure opens for a reference: ET.parse(reference) resolves the
\* path string against the working directory of the process.
OpenedByClosure(reference) == AbsPath(PathJoin(cwd, reference))

\* One turn of "while any(newReference)": an arbitrary reference is popped and
\* parsed; the path string is opened as it stands, against the working directory.
ClosurePop ==
    /\ pc = "closure"
    /\ AnyOf(newReference)
    /\ \E reference \in newReference :
        LET r == _get_dotnet_project_references(OpenedByClosure(reference))
            added == AddSuggested(result_references, newReference \ {reference}, r.refs)
        IN /\ parseLog' = Append(parseLog, reference)
           /\ IF r.err # "none"
              THEN /\ Raise(r.err)
                   /\ newReference' = newReference \ {reference}
                   /\ UNCHANGED result_references
              ELSE /\ result_references' = added[1]
                   /\ newReference' = added[2]
                   /\ UNCHANGED <<pc, error, failedAt>>
    /\ UNCHANGED <<files, manifest, cwd, disk, warned, csproj_path, abs_references,
                   replace_dict, csproj_content, new_csproj_content,
                   transitives_references, idx, original, stagedLog>>

\* list(S): the elements of a set in some order
ListOf(S) == {s \in SeqsUpTo(S, Cardinality(S)) : Range(s) = S}

\* return list(set(result_references) - set(current_references)); if any(...)
ClosureReturn ==
    /\ pc = "closure"
    /\ ~AnyOf(newReference)
    /\ \E l \in ListOf(Range(result_references) \ Range(abs_references)) :
        /\ transitives_references' = l
        /\ pc' = IF AnyOf(Range(l)) THEN "stage_transitive" ELSE "finalize_bak"
    /\ idx' = 1
    /\ UNCHANGED <<files, manifest, cwd, disk, error, warned, csproj_path, abs_references,
                   replace_dict, csproj_content, new_csproj_content, result_references, newReference,
                   original, failedAt, parseLog, stagedLog>>

\* Step 3: append transitive project references to .zip.tmp
StageTransitive ==
    /\ pc = "stage_transitive"
    /\ AppendOne(transitives_references, "finalize_bak", FALSE)
    /\ UNCHANGED <<files, manifest, cwd, warned, csproj_path, abs_references,
                   csproj_content, new_csproj_content, result_references, newReference,
                   transitives_references, original, parseLog>>

\* csproj_path[len(dirPath) + 1:]
RootArcname == RelTo(dirPath, csproj_path)

\* Step 4: backup main project .csproj
FinalizeBak ==
    /\ pc = "finalize_bak"
    /\ disk' = [disk EXCEPT ![tmp_zip_file_path] =
                  Archive(Append(@.entries, Entry(RootArcname \o <<".bak">>, <<"file", csproj_path>>)))]
    /\ pc' = "finalize_new"
    /\ UNCHANGED <<files, manifest, cwd, error, warned, csproj_path, abs_references,
                   replace_dict, csproj_content, new_csproj_content, result_references, newReference,
                   transitives_references, idx, original, failedAt, parseLog, stagedLog>>

\* Step 4: new main project .csproj; then the original archive is opened
FinalizeNew ==
    /\ pc = "finalize_new"
    /\ disk' = [disk EXCEPT ![tmp_zip_file_path] =
                  Archive(Append(@.entries, Entry(RootArcname, <<"text", new_csproj_content>>)))]
    /\ pc' = "copy"
    /\ idx' = 1
    /\ UNCHANGED <<files, manifest, cwd, error, warned, csproj_path, abs_references,
                   replace_dict, csproj_content, new_csproj_content, result_references, newReference,
                   transitives_references, original, failedAt, parseLog, stagedLog>>

\* if not original_info.filename.endswith('.csproj')
CopiedForward(original_info) == ~EndsWithCsproj(original_info.name)

\* Step 4: one turn of "for original_info in original_zf.infolist()"
CopyEntry ==
    /\ pc = "copy"
    /\ idx <= Len(disk[zip_file_path].entries)
    /\ LET original_info == disk[zip_file_path].entries[idx]
       IN disk' = [disk EXCEPT ![tmp_zip_file_path] =
                     IF CopiedForward(original_info)
                     THEN Archive(Append(@.entries, Entry(original_info.name, original_info.data)))
                     ELSE @]
    /\ idx' = idx + 1
    /\ UNCHANGED <<files, manifest, cwd, pc, error, warned, csproj_path, abs_references,
                   replace_dict, csproj_content, new_csproj_content, result_references, newReference,
                   transitives_references, original, failedAt, parseLog, stagedLog>>

\* Mutation of LoopExhausted: the loop is left after its first turn.
LoopExhausted_after_first(i, infolist) == i > 1

\* for original_info in original_zf.infolist(): every entry has had its turn
LoopExhausted(i, infolist) == i > Len(infolist)

\* Step 4 ends: both archives are closed
CopyDone ==
    /\ pc = "copy"
    /\ LoopExhausted(idx, disk[zip_file_path].entries)
    /\ pc' = "remove"
    /\ UNCHANGED <<files, manifest, cwd, disk, error, warned, csproj_path, abs_references,
                   replace_dict, csproj_content, new_csproj_content, result_references, newReference,
                   transitives_references, idx, original, failedAt, parseLog, stagedLog>>

\* Step 5: os.remove(zip_file_path)
Remove ==
    /\ pc = "remove"
    /\ disk' = [disk EXCEPT ![zip_file_path] = NoFile]
    /\ pc' = "rename"
    /\ UNCHANGED <<files, manifest, cwd, error, warned, csproj_path, abs_references,
                   replace_dict, csproj_content, new_csproj_content, result_references, newReference,
                   transitives_references, idx, original, failedAt, parseLog, stagedLog>>

\* os.rename(src, dst): dst takes the file of src, src is gone
Renamed(d, src, dst) == [p \in DOMAIN d |-> IF p = dst THEN d[src] ELSE IF p = src THEN NoFile ELSE d[p]]

\* Step 5: os.rename(tmp_zip_file_path, zip_file_path)
Rename ==
    /\ pc = "rename"
    /\ disk' = Renamed(disk, tmp_zip_file_path, zip_file_path)
    /\ pc' = "return"
    /\ UNCHANGED <<files, manifest, cwd, error, warned, csproj_path, abs_references,
                   replace_dict, csproj_content, new_csproj_content, result_references, newReference,
                   transitives_references, idx, original, failedAt, parseLog, stagedLog>>

\* The steps that write or read a file and can therefore raise OSError.
IOSteps == {"init_tmp", "stage_direct", "rewrite", "stage_transitive", "finalize_bak",
            "finalize_new", "copy", "remove", "rename"}

\* A file operation of the current step fails: nothing is written by the step.
IOFail ==
    /\ pc \in IOSteps
    /\ Raise("OSError")
    /\ UNCHANGED <<files, manifest, cwd, disk, warned, csproj_path, abs_references,
                   replace_dict, csproj_content, new_csproj_content, result_references, newReference,
                   transitives_references, idx, original, parseLog, stagedLog>>

\* An entry of the original archive is corrupt: original_zf.open/read raises.
CopyCorrupt ==
    /\ pc = "copy"
    /\ idx <= Len(disk[zip_file_path].entries)
    /\ CopiedForward(disk[zip_file_path].entries[idx])
    /\ Raise("BadZipFile")
    /\ UNCHANGED <<files, manifest, cwd, disk, warned, csproj_path, abs_references,
                   replace_dict, csproj_content, new_csproj_content, result_references, newReference,
                   transitives_references, idx, original, parseLog, stagedLog>>

\* zip_contents_from_dir: except (OSError, ValueError, ...): logger.warning(...);
\* the outer "except OSError" does not match what the inner one lets through.
Handler ==
    /\ pc = "except"
    /\ IF error \in CaughtByBundlingNet
       THEN /\ warned' = TRUE
            /\ pc' = "returned"
       ELSE /\ pc' = "raised"
            /\ UNCHANGED warned
    /\ UNCHANGED <<files, manifest, cwd, disk, error, csproj_path, abs_references,
                   replace_dict, csproj_content, new_csproj_content, result_references, newReference,
                   transitives_references, idx, original, failedAt, parseLog, stagedLog>>

\* The bundler returned normally: return zip_file_path
Return ==
    /\ pc = "return"
    /\ pc' = "returned"
    /\ UNCHANGED <<files, manifest, cwd, disk, error, warned, csproj_path, abs_references,
                   replace_dict, csproj_content, new_csproj_content, result_references, newReference,
                   transitives_references, idx, original, failedAt, parseLog, stagedLog>>

Next ==
    \/ ZipDir
    \/ ZipDirFail
    \/ GetMainCsproj
    \/ ParseRoot
    \/ InitTmp
    \/ StageDirect
    \/ Rewrite
    \/ ClosureStart
    \/ ClosurePop
    \/ ClosureReturn
    \/ StageTransitive
    \/ FinalizeBak
    \/ FinalizeNew
    \/ CopyEntry
    \/ CopyDone
    \/ Remove
    \/ Rename
    \/ IOFail
    \/ CopyCorrupt
    \/ Handler
    \/ Return

Spec == Init /\ [][Next]_vars

\* ---------------------------------------------- the closure, on its own
\* The entries Step 2 has written for the references refs
RECURSIVE StagedEntries(_)
StagedEntries(refs) ==
    IF refs = <<>> THEN <<>>
    ELSE TreeEntries(refs[1]) \o <<BakEntry(refs[1])>> \o StagedEntries(Tail(refs))

\* The state in which zip_dotnet_project_references calls
\* _get_dotnet_transitive_missing_references(abs_references): steps 1 and 2 and
\* the rewrite are done, for any root manifest with at least one reference,
\* the process running in the root directory.
ClosureInit ==
    /\ files = FixedFiles \cup {AppCsproj}
    /\ \E ds \in SeqsUpTo(RootDecls \ {NoAttr}, MaxRefs) \ {<<>>}, l \in LibContents, u \in UtilContents :
        /\ manifest = [f \in {g \in FixedFiles \cup {AppCsproj} : EndsWithCsproj(g)} |->
                        CASE f = AppCsproj -> Manifest(ds)
                          [] f = LibCsproj -> l
                          [] f = UtilCsproj -> u
                          [] f = XLibCsproj -> Manifest(<<Decl(IU)>>)
                          [] OTHER -> Manifest(<<>>)]
        /\ abs_references = IncludesOf(ds)
        /\ csproj_content = ManifestText(Manifest(ds))
    /\ cwd = dirPath
    /\ original = Archive(ZipEntries(dirPath))
    /\ disk = [p \in {zip_file_path, tmp_zip_file_path} |->
                IF p = zip_file_path THEN Archive(ZipEntries(dirPath))
                ELSE Archive(<<Entry(<<DOTNET_REFERENCES_DIR_IN_ZIP, "/">>, <<"dir", <<>>>>)>>
                             \o StagedEntries(abs_references))]
    /\ pc = "closure_start"
    /\ error = "none"
    /\ warned = FALSE
    /\ csproj_path = AppCsproj
    /\ replace_dict = ReplaceDictOf(<<>>, abs_references)
    /\ new_csproj_content = ReplaceAll(csproj_content, replace_dict)
    /\ result_references = <<>>
    /\ newReference = {}
    /\ transitives_references = <<>>
    /\ idx = Len(abs_references) + 1
    /\ failedAt = "none"
    /\ parseLog = <<>>
    /\ stagedLog = [i \in 1..Len(abs_references) |-> AbsInclude(abs_references[i])]

ClosureNext ==
    \/ ClosureStart
    \/ ClosurePop
    \/ ClosureReturn

\* The closure loop is sequential code: while a turn of it can run, it does run.
ClosureSpec == ClosureInit /\ [][ClosureNext]_vars /\ WF_vars(ClosureNext)

\* ---------------------------------------------- the rewrite, on its own
\* Largest number of tokens of a root manifest text given to the rewrite.
MaxTextLen == 4

\* A project in a subfolder of the web app: its path is a suffix of IL.
ISub == <<"Lib", "Lib.csproj">>

TextTokens == {"<", "..", "Lib", "Lib.csproj"}

\* The state before the for loop over replace_dict.items(), for any root
\* manifest text and any replace_dict the staging can return.
RewriteInit ==
    /\ files = FixedFiles \cup {AppCsproj, dirPath \o ISub}
    /\ manifest = [f \in {g \in FixedFiles \cup {AppCsproj, dirPath \o ISub} : EndsWithCsproj(g)} |-> Manifest(<<>>)]
    /\ cwd = dirPath
    /\ original = Archive(ZipEntries(dirPath))
    /\ disk = [p \in {zip_file_path, tmp_zip_file_path} |->
                IF p = zip_file_path THEN Archive(ZipEntries(dirPath)) ELSE NoFile]
    /\ pc = "rewrite_loop"
    /\ error = "none"
    /\ warned = FALSE
    /\ csproj_path = AppCsproj
    /\ abs_references \in SeqsUpTo({ISub, IL, IU}, MaxRefs)
    /\ replace_dict = ReplaceDictOf(<<>>, abs_references)
    /\ csproj_content \in SeqsUpTo(TextTokens, MaxTextLen)
    /\ new_csproj_content = csproj_content
    /\ result_references = <<>>
    /\ newReference = {}
    /\ transitives_references = <<>>
    /\ idx = 0
    /\ failedAt = "none"
    /\ parseLog = <<>>
    /\ stagedLog = <<>>

\* The for loop over replace_dict.items(), applied to the text read
RewriteText ==
    /\ pc = "rewrite_loop"
    /\ new_csproj_content' = ReplaceAll(csproj_content, replace_dict)
    /\ pc' = "rewritten"
    /\ UNCHANGED <<files, manifest, cwd, disk, error, warned, csproj_path, abs_references,
                   replace_dict, csproj_content, result_references, newReference,
                   transitives_references, idx, original, failedAt, parseLog, stagedLog>>

RewriteNext == RewriteText

RewriteSpec == RewriteInit /\ [][RewriteNext]_vars

\* ------------------------------------------------------------------ claims
Terminal == pc \in {"returned", "raised"}

\* The bundler ran and an exception left it.
BundlerFailed == error # "none" /\ failedAt # "zip"

NoDuplicates(s) == \A i, j \in 1..Len(s) : i # j => s[i] # s[j]

\* C1: if the bundler fails at any step before the delete-and-rename swap, the
\* file at zip_file_path is, once the exception has left the bundler, exactly
\* the archive that zip_contents_from_dir had built.
C1_OriginalUntouchedOnEarlyFailure ==
    (BundlerFailed /\ failedAt \notin {"remove", "rename"}) => disk[zip_file_path] = original

\* A corrupt entry stops the copy of the original archive after the references,
\* the backup and the corrected manifest were written to the staging archive.
C1_Witness ==
    /\ pc = "returned"
    /\ error = "BadZipFile"
    /\ failedAt = "copy"
    /\ Len(disk[tmp_zip_file_path].entries) > 3
    /\ original.exists
    /\ disk[zip_file_path] = original

\* The archive a complete run leaves: the corrected root manifest, its backup,
\* a backup of every staged reference and every entry copied forward.
CompleteBundle(a) ==
    /\ a.exists
    /\ Entry(RootArcname, <<"text", new_csproj_content>>) \in Range(a.entries)
    /\ Entry(RootArcname \o <<".bak">>, <<"file", csproj_path>>) \in Range(a.entries)
    /\ \A i \in 1..Len(original.entries) :
         CopiedForward(original.entries[i]) => original.entries[i] \in Range(a.entries)
    /\ \A s \in Range(abs_references) \cup Range(transitives_references) :
         BakEntry(s) \in Range(a.entries)

\* C2: whenever the bundler has returned or raised, the file at zip_file_path
\* is the complete original archive or the complete bundled archive.
C2_OriginalOrBundle ==
    (Terminal /\ original.exists) =>
        (disk[zip_file_path] = original \/ CompleteBundle(disk[zip_file_path]))

\* C3: whatever makes the bundler fail, zip_contents_from_dir logs a warning and
\* returns the path of the archive as it stood before bundling.
C3_BundlingIsBestEffort ==
    (Terminal /\ BundlerFailed) => (pc = "returned" /\ warned /\ disk[zip_file_path] = original)

\* C4: for every reference graph (cycles, self-references and duplicate edges
\* included) and every order of popping, the closure loop comes to an end, no
\* reference is parsed twice, and the list it returns has no duplicates.
C4_ClosureTerminatesOnce ==
    /\ [](NoDuplicates(parseLog) /\ NoDuplicates(transitives_references))
    /\ (pc = "closure") ~> (pc # "closure")

\* The closure has returned over a graph in which Lib references itself, Util
\* twice, and Util references Lib back.
C4_Witness ==
    /\ pc = "stage_transitive"
    /\ cwd = dirPath
    /\ manifest[LibCsproj] = Manifest(<<Decl(IL), Decl(IU), Decl(IU)>>)
    /\ manifest[UtilCsproj] = Manifest(<<Decl(IL)>>)
    /\ Range(parseLog) = {IL, IU}
    /\ transitives_references = <<IU>>

\* C5: the root manifest is never in the list the closure returns and is never
\* staged as a reference.
C5_RootNeverAReference ==
    /\ \A i \in 1..Len(transitives_references) : AbsInclude(transitives_references[i]) # AppCsproj
    /\ AppCsproj \notin Range(stagedLog)

\* The manifests a manifest references, its paths read against the root directory.
ReferencedBy(m) ==
    LET r == _get_dotnet_project_references(m)
    IN IF r.err = "none" THEN {AbsInclude(r.refs[i]) : i \in 1..Len(r.refs)} ELSE {}

RECURSIVE ReachableFrom(_)
ReachableFrom(S) ==
    LET more == S \cup UNION {ReferencedBy(m) : m \in S}
    IN IF more = S THEN S ELSE ReachableFrom(more)

\* The projects whose file tree and .bak manifest copy are in the archive a.
StagedProjects(a) ==
    { m \in {f \in files : EndsWithCsproj(f)} :
        /\ \E i \in 1..Len(a.entries) :
             /\ a.entries[i].data = <<"file", m>>
             /\ a.entries[i].name[1] = DOTNET_REFERENCES_DIR_IN_ZIP
             /\ Last(a.entries[i].name) = ".bak"
        /\ \A f \in Walk(DirName(m)) : \E i \in 1..Len(a.entries) :
             /\ a.entries[i].data = <<"file", f>>
             /\ a.entries[i].name[1] = DOTNET_REFERENCES_DIR_IN_ZIP }

\* A run that bundled references and ended without an exception.
BundledRun == pc = "returned" /\ error = "none" /\ abs_references # <<>>

\* C6: after a successful run the projects staged under the references
\* directory are exactly the projects reachable from the root manifest.
C6_StagedIsReachable ==
    BundledRun => StagedProjects(disk[zip_file_path]) = ReachableFrom(ReferencedBy(csproj_path))

\* C7: no referenced project is staged twice in a run.
C7_StagedOnce == NoDuplicates(stagedLog)

\* C8: the staging archive never holds two entries with the same arcname.
C8_UniqueArcnames ==
    LET es == disk[tmp_zip_file_path].entries
    IN \A i, j \in 1..Len(es) : i # j => es[i].name # es[j].name

\* C9: after a successful run every entry of the original archive other than
\* the root manifest is in the final archive, under its name, with its content.
C9_OthersCopiedForward ==
    BundledRun =>
        \A i \in 1..Len(original.entries) :
            original.entries[i].name # RootArcname =>
                original.entries[i] \in Range(disk[zip_file_path].entries)

\* The pairs of a rewrite map, longer original paths before shorter ones
\* (pairs of equal length keep their order).
RECURSIVE LongestFirst(_)
LongestFirst(d) ==
    IF d = <<>> THEN <<>>
    ELSE LET longest == CHOOSE i \in 1..Len(d) :
                 /\ \A j \in 1..Len(d) : Len(d[j][1]) <= Len(d[i][1])
                 /\ \A j \in 1..(i - 1) : Len(d[j][1]) < Len(d[i][1])
         IN <<d[longest]>> \o LongestFirst(SubSeq(d, 1, longest - 1) \o SubSeq(d, longest + 1, Len(d)))

\* C10: the rewritten text is the text with every occurrence of each original
\* reference path replaced by its in-archive path, longer originals first.
C10_LongestOriginalFirst ==
    pc = "rewritten" => new_csproj_content = ReplaceAll(csproj_content, LongestFirst(replace_dict))

\* The entries of the archive a that hold the root manifest's text as it was
\* before the rewrite.
PreRewriteEntries(a) ==
    { i \in 1..Len(a.entries) :
        a.entries[i].data = <<"file", csproj_path>> \/ a.entries[i].data = <<"text", csproj_content>> }

\* C11: after a successful run the final archive has exactly one entry under
\* the root manifest's name, holding the corrected text, and the text from
\* before the rewrite is found only under that name with the backup marker.
C11_OneCorrectedRootManifest ==
    BundledRun =>
        LET a == disk[zip_file_path]
        IN /\ Cardinality({i \in 1..Len(a.entries) : a.entries[i].name = RootArcname}) = 1
           /\ Entry(RootArcname, <<"text", new_csproj_content>>) \in Range(a.entries)
           /\ \A i \in PreRewriteEntries(a) : a.entries[i].name = RootArcname \o <<".bak">>

\* The staging archive is open while control is inside one of the with blocks
\* that open it (steps 2, 3 and 4).
StagingOpen == pc \in {"stage_direct", "stage_transitive", "finalize_bak", "finalize_new", "copy"}

\* The staging archive holds the root backup, the corrected manifest and a
\* copy of every entry of the original that is copied forward.
StagingComplete ==
    LET es == disk[tmp_zip_file_path].entries
    IN /\ disk[tmp_zip_file_path].exists
       /\ Entry(RootArcname \o <<".bak">>, <<"file", csproj_path>>) \in Range(es)
       /\ Entry(RootArcname, <<"text", new_csproj_content>>) \in Range(es)
       /\ \A i \in 1..Len(original.entries) :
            CopiedForward(original.entries[i]) => original.entries[i] \in Range(es)

\* C12: the original archive is deleted only when the backup, the corrected
\* manifest and every copied entry are in the staging archive and that archive
\* is closed; the staging archive is renamed only after the deletion; and the
\* staging archive is not written once the original is deleted.
C12_SwapAfterStaging ==
    [][ /\ (disk[zip_file_path].exists /\ ~disk'[zip_file_path].exists) =>
             (StagingComplete /\ ~StagingOpen /\ error = "none")
        /\ (disk[tmp_zip_file_path].exists /\ ~disk'[tmp_zip_file_path].exists) =>
             (~disk[zip_file_path].exists /\ disk'[zip_file_path] = disk[tmp_zip_file_path])
        /\ (original.exists /\ ~disk[zip_file_path].exists /\ disk'[tmp_zip_file_path].exists) =>
             disk'[tmp_zip_file_path] = disk[tmp_zip_file_path] ]_vars

\* The swap is done: the original was deleted and the staging archive, with a
\* transitive reference staged in it, is at the original path.
C12_Witness ==
    /\ pc = "return"
    /\ abs_references # <<>>
    /\ transitives_references # <<>>
    /\ ~disk[tmp_zip_file_path].exists
    /\ disk[zip_file_path].exists
    /\ disk[zip_file_path] # original

\* The bundler has been entered and has acted.
BundlerActed == pc \notin {"zip", "main_csproj"} /\ error # "CLIError"

\* C13: when the root directory does not hold exactly one manifest, the
\* bundler fails in the root lookup: no manifest has been parsed, no staging
\* archive exists and the original archive is as the packaging step left it.
C13_FailsBeforeAnyWork ==
    (BundlerActed /\ Cardinality(RootCsprojs(dirPath)) # 1) =>
        /\ pc \in {"except", "raised"}
        /\ error = "Exception"
        /\ failedAt = "main_csproj"
        /\ csproj_path = <<>>
        /\ csproj_content = <<>>
        /\ abs_references = <<>>
        /\ parseLog = <<>>
        /\ disk[tmp_zip_file_path] = NoFile
        /\ disk[zip_file_path] = original
        /\ original.exists

\* The bundler failed on a root directory that holds two manifests.
C13_Witness ==
    /\ Cardinality(RootCsprojs(dirPath)) = 2
    /\ pc = "raised"
    /\ failedAt = "main_csproj"
    /\ disk[zip_file_path] = original
    /\ original.exists

\* C14: every reference the closure parsed was read from the file that
\* staging copies for that reference.
C14_ParsedIsStaged ==
    \A i \in 1..Len(parseLog) : OpenedByClosure(parseLog[i]) = AbsInclude(parseLog[i])

\* C15: after a successful run every path of the rewrite map is the name of an
\* entry of the final archive that holds the manifest of the reference it was
\* mapped from.
C15_MappedPathsExist ==
    BundledRun =>
        \A i \in 1..Len(replace_dict) :
            /\ replace_dict[i][2] =
                 <<DOTNET_REFERENCES_DIR_IN_ZIP, BaseName(DirName(AbsInclude(replace_dict[i][1]))),
                   BaseName(AbsInclude(replace_dict[i][1]))>>
            /\ Entry(replace_dict[i][2], <<"file", AbsInclude(replace_dict[i][1])>>)
                 \in Range(disk[zip_file_path].entries)

\* A successful run whose rewrite map holds two paths.
C15_Witness ==
    /\ BundledRun
    /\ Len(replace_dict) = 2
    /\ \A i \in 1..2 : \E e \in Range(disk[zip_file_path].entries) : e.name = replace_dict[i][2]

====
